---- MODULE Spec2Model ----
(***************************************************************************)
(* A model of the DNS message codec and the iterative resolver of          *)
(* dns-weekend-deno (resolve.ts with utils.ts / seekable.ts).              *)
(*                                                                         *)
(* Byte arrays (Uint8Array) are sequences of numbers 0..255, 1-indexed     *)
(* here and 0-indexed in the source: byte i of the source is data[i+1].    *)
(* Strings are sequences of character codes ("a.b" is <<97, 46, 98>>).     *)
(* A thrown exception is the value [ok |-> FALSE, err |-> kind] of an      *)
(* operator, or pc = "error" with err = kind in the state machines.        *)
(***************************************************************************)
EXTENDS Integers, Sequences, FiniteSets, TLC

VARIABLES
    data,         \* SeekableBytesReader.data: the buffer being decoded
    position,     \* SeekableBytesReader.position
    pc,           \* where parseDNSPacket / decodeName is
    err,          \* kind of the exception thrown ("" while none)
    stack,        \* the active decodeName calls, innermost last
    nameFor,      \* who called the outermost decodeName
    retName,      \* the value the decodeName that just returned gave
    header,       \* DNSPacket under construction: header
    questions,    \*   questions
    answers,      \*   answers
    authorities,  \*   authorities
    additionals,  \*   additionals
    sec,          \* the section loop parseDNSPacket is in (1..4)
    idx,          \* the loop counter i of that section
    rec,          \* the fixed fields of the record being parsed
    shortRead,    \* history: some read(n) returned fewer than n bytes
    msg,          \* history: the message the buffer was encoded from
    trail,        \* history: the entries parseDNSPacket pushed so far, each with
                  \*   its section and the offset its decoding started at
    calls,        \* the active resolve calls, innermost last
    outcome,      \* how the top-level resolve ended, if it has (depth: history,
                  \*   the number of resolve calls active when it ended)
    wire,         \* the last socket.send of sendQuery
    nSent,        \* history: the number of sendQuery calls so far
    runs          \* the resolve invocations running in parallel, each with its
                  \*   calls and outcome and, as history, the nameservers it
                  \*   queried (asked) and the replies it received (heard)

codecVars == <<data, position, pc, err, stack, nameFor, retName, header,
               questions, answers, authorities, additionals, sec, idx, rec,
               shortRead, msg, trail>>

resolverVars == <<calls, outcome, wire, nSent, runs>>

vars == <<codecVars, resolverVars>>

(***************************************************************************)
(* Program constants.                                                      *)
(***************************************************************************)
TYPE_A == 1
TYPE_NS == 2
TYPE_TXT == 16
CLASS_IN == 1
DOT == 46

Min(a, b) == IF a < b THEN a ELSE b

RECURSIVE FlattenValue(_)
FlattenValue(ss) == IF ss = <<>> THEN <<>> ELSE Head(ss) \o FlattenValue(Tail(ss))

\* The arrays of ss one after the other (ss is evaluated once, as the argument
\* of a call is).
Flatten(ss) == CHOOSE r \in {FlattenValue(v) : v \in {ss}} : TRUE

(***************************************************************************)
(* utils.ts                                                                *)
(***************************************************************************)
concatUint8Arrays(arrays) == Flatten(arrays)

\* DataView.setUint16(i * 2, v, false): the low 16 bits of v, high byte first.
packUnsignedShortsBigEndian(values) ==
    Flatten([i \in 1..Len(values) |->
                <<(values[i] \div 256) % 256, values[i] % 256>>])

\* getUint16(i) for i = 0, 2, ... while i < byteLength: a RangeError when the
\* last pair is cut (odd length), else one value per pair.
unpackThrows(buffer) == Len(buffer) % 2 = 1

unpackUnsignedShortsBigEndian(buffer) ==
    [i \in 1..(Len(buffer) \div 2) |-> buffer[2 * i - 1] * 256 + buffer[2 * i]]

\* totalLength = sum (part.length + 1) - 1; new Uint8Array(-1) is a RangeError.
RECURSIVE joinTotalLength(_)
joinTotalLength(array) ==
    IF array = <<>> THEN 0 - 1
    ELSE Len(Head(array)) + 1 + joinTotalLength(Tail(array))

joinThrows(array) == joinTotalLength(array) < 0

\* Every part is written followed by a dot; the write of the last dot falls
\* outside the result and is dropped.
RECURSIVE joinWritten(_)
joinWritten(array) ==
    IF array = <<>> THEN <<>>
    ELSE Head(array) \o <<DOT>> \o joinWritten(Tail(array))

joinUint8ArrayWithDot(array) ==
    SubSeq(joinWritten(array), 1, joinTotalLength(array))

(***************************************************************************)
(* SeekableBytesReader                                                     *)
(***************************************************************************)
\* read(n) throws only when the position is at or past the end.
readThrows(d, p) == p >= Len(d)

readEnd(d, p, n) == Min(p + n, Len(d))

readData(d, p, n) == SubSeq(d, p + 1, readEnd(d, p, n))

seekThrows(d, offset) == offset < 0 \/ offset > Len(d)

(***************************************************************************)
(* resolve.ts, part 1: building a query                                    *)
(***************************************************************************)
\* TextEncoder.encode: UTF-8 of one code point (below 0x10000).
utf8(c) ==
    IF c < 128 THEN <<c>>
    ELSE IF c < 2048 THEN <<192 + (c \div 64), 128 + (c % 64)>>
    ELSE <<224 + (c \div 4096), 128 + ((c \div 64) % 64), 128 + (c % 64)>>

textEncode(s) == Flatten([i \in 1..Len(s) |-> utf8(s[i])])

\* TextDecoder("utf-8").decode on bytes that hold no multi-byte sequence: an
\* ASCII byte is its character, any other byte becomes U+FFFD.
textDecode(b) == [i \in 1..Len(b) |-> IF b[i] < 128 THEN b[i] ELSE 65533]

\* String.prototype.split("."): "" gives [""], "a." gives ["a", ""].
RECURSIVE splitFrom(_, _)
splitFrom(s, cur) ==
    IF s = <<>> THEN <<cur>>
    ELSE IF Head(s) = DOT THEN <<cur>> \o splitFrom(Tail(s), <<>>)
    ELSE splitFrom(Tail(s), Append(cur, Head(s)))

split(s) == splitFrom(s, <<>>)

headerToBytes(h) ==
    packUnsignedShortsBigEndian(<<h.id, h.flags, h.numQuestions, h.numAnswers,
                                  h.numAuthorities, h.numAdditionals>>)

questionToBytes(q) ==
    concatUint8Arrays(<<q.name, packUnsignedShortsBigEndian(<<q.type_, q.class_>>)>>)

\* new Uint8Array([partBytes.length]) keeps the low 8 bits of the length.
encodeDnsName(domainName) ==
    LET parts == split(domainName)
        partBytes(i) == textEncode(parts[i])
    IN  Flatten([i \in 1..Len(parts) |->
                    <<Len(partBytes(i)) % 256>> \o partBytes(i)]) \o <<0>>

DNSHeader(id, flags, nq, na, nauth, nadd) ==
    [id |-> id, flags |-> flags, numQuestions |-> nq, numAnswers |-> na,
     numAuthorities |-> nauth, numAdditionals |-> nadd]

DNSQuestion(name, type_, class_) ==
    [name |-> name, type_ |-> type_, class_ |-> class_]

DNSRecord(name, type_, class_, ttl, d) ==
    [name |-> name, type_ |-> type_, class_ |-> class_, ttl |-> ttl, data |-> d]

\* buildQuery asking for recursion (RECURSION_DESIRED = 1 << 8).
buildQueryRecursionDesired(domainName, recordType, id) ==
    LET name == encodeDnsName(domainName)
        h == DNSHeader(id, 256, 1, 0, 0, 0)
        question == DNSQuestion(name, recordType, CLASS_IN)
    IN  concatUint8Arrays(<<headerToBytes(h), questionToBytes(question)>>)

\* id is Math.floor(Math.random() * 65536), an input here.
buildQuery(domainName, recordType, id) ==
    LET name == encodeDnsName(domainName)
        h == DNSHeader(id, 0, 1, 0, 0, 0)
        question == DNSQuestion(name, recordType, CLASS_IN)
    IN  concatUint8Arrays(<<headerToBytes(h), questionToBytes(question)>>)

(***************************************************************************)
(* resolve.ts, part 2: decoding                                            *)
(***************************************************************************)
\* Array.from(ip).join("."): each byte in decimal, dots between.
RECURSIVE decimal(_)
decimal(n) ==
    IF n < 10 THEN <<48 + n>> ELSE decimal(n \div 10) \o <<48 + (n % 10)>>

RECURSIVE ipToString(_)
ipToString(ip) ==
    IF ip = <<>> THEN <<>>
    ELSE IF Len(ip) = 1 THEN decimal(ip[1])
    ELSE decimal(Head(ip)) \o <<DOT>> \o ipToString(Tail(ip))

\* An argument that is undefined (items[k] past the end of items).
undefined == 0 - 1

Failure(kind) ==
    [ok |-> FALSE, err |-> kind, name |-> <<>>, pos |-> 0, short |-> FALSE]

\* decodeNameSimple: the while loop, from position p with the parts read so
\* far; short records whether a read(length) came back cut.
RECURSIVE decodeNameSimpleLoop(_, _, _, _)
decodeNameSimpleLoop(d, p, parts, short) ==
    IF readThrows(d, p) THEN Failure("read")
    ELSE LET length == d[p + 1] IN
         IF length = 0
         THEN IF joinThrows(parts) THEN Failure("join")
              ELSE [ok |-> TRUE, err |-> "", name |-> joinUint8ArrayWithDot(parts),
                    pos |-> p + 1, short |-> short]
         ELSE IF readThrows(d, p + 1) THEN Failure("read")
         ELSE decodeNameSimpleLoop(d, readEnd(d, p + 1, length),
                                   Append(parts, readData(d, p + 1, length)),
                                   short \/ Len(readData(d, p + 1, length)) < length)

decodeNameSimple(d, p) == decodeNameSimpleLoop(d, p, <<>>, FALSE)

\* length & 0b1100_0000 is truthy when either of the top two bits is set.
isPointer(length) == (length \div 64) % 4 # 0

\* pointerOf without the high bits of the offset.
pointerOfLowByte(length, next) == next

\* pointerBytes[0] = length & 0b0011_1111; pointerBytes[1] = the next byte.
pointerOf(length, next) ==
    unpackUnsignedShortsBigEndian(<<length % 64, next>>)[1]

(***************************************************************************)
(* Bounds of the model and the inputs drawn from them.                     *)
(***************************************************************************)
MaxLen == 5         \* longest buffer handed to decodeName on its own
MaxDepth == 7       \* decodeName calls followed before the model stops
MaxQuestions == 2   \* most questions of an encoded message

\* 0: terminator; 1, 2: label lengths and pointer offsets; 97: "a", and a
\* length byte with bit 6 set; 192: pointer into the first 256 bytes;
\* 193: pointer past the end of every buffer of the model.
Alphabet == {0, 1, 2, 97, 192, 193}

\* 257 zero bytes, the name "a" at offset 257, a pointer to offset 257 (1 * 256
\* + 1) at offset 260, and "b" followed by that pointer at offset 262.
LongBuffer == [i \in 1..257 |-> 0] \o <<1, 97, 0, 193, 1, 1, 98, 193, 1>>

\* Length bytes with one of the two top bits set (64 and 128), followed by the
\* name "a" at offset 2; and the same bytes behind a label.
TopBitBuffers ==
    {<<64, 2, 1, 97, 0>>, <<128, 2, 1, 97, 0>>, <<66, 3, 0, 1, 97, 0>>,
     <<1, 98, 64, 4, 1, 97, 0>>}

\* A pointer to a pointer to the name "a".
NestedPointerBuffer == <<192, 2, 192, 4, 1, 97, 0>>

Buffers ==
    UNION {[1..n -> Alphabet] : n \in 0..MaxLen}
        \cup {LongBuffer, NestedPointerBuffer} \cup TopBitBuffers

\* "a", "a.b", "ab", "" and "a."
DomainNames == {<<97>>, <<97, DOT, 98>>, <<97, 98>>, <<>>, <<97, DOT>>}

Ids == {4884, 65535}

SeqsUpTo(S, n) == UNION {[1..k -> S] : k \in 0..n}

SourceQuestions ==
    {DNSQuestion(dn, t, CLASS_IN) : dn \in DomainNames, t \in {TYPE_A, TYPE_NS}}

\* The bytes the code writes for a message: headerToBytes, then questionToBytes
\* of every question with its name encoded by encodeDnsName, then the records
\* (which the code cannot write: they are given as bytes).
encodeMessage(m) ==
    headerToBytes(m.header)
    \o Flatten([i \in 1..Len(m.questions) |->
                  questionToBytes(DNSQuestion(encodeDnsName(m.questions[i].name),
                                              m.questions[i].type_,
                                              m.questions[i].class_))])
    \o m.tail

QueryMessages ==
    {[header |-> DNSHeader(id, 0, Len(qs), 0, 0, 0), questions |-> qs, tail |-> <<>>] :
        id \in Ids, qs \in SeqsUpTo(SourceQuestions, MaxQuestions)}

\* A resource record as a server writes it.
wireRecord(name, type_, ttl, dataLen, payload) ==
    name \o packUnsignedShortsBigEndian(<<type_, CLASS_IN, ttl \div 65536, ttl % 65536, dataLen>>)
         \o payload

\* Replies to the question "a" (its name is at offset 12, the records start at
\* offset 19); <<192, 12>> is a pointer to the question's name.
Reply(na, nauth, nadd, records) ==
    [header |-> DNSHeader(4884, 32768, 1, na, nauth, nadd),
     questions |-> <<DNSQuestion(<<97>>, TYPE_A, CLASS_IN)>>,
     tail |-> Flatten(records)]

ReplyMessages ==
    { Reply(1, 0, 0, <<wireRecord(<<192, 12>>, TYPE_A, 300, 4, <<93, 184, 216, 34>>)>>),
      Reply(2, 0, 0, <<wireRecord(<<192, 12>>, TYPE_TXT, 300, 2, <<7, 8>>),
                       wireRecord(<<1, 97, 0>>, TYPE_A, 70000, 4, <<10, 0, 0, 1>>)>>),
      Reply(0, 1, 1, <<wireRecord(<<192, 12>>, TYPE_NS, 300, 5, <<2, 110, 115, 192, 12>>),
                       wireRecord(<<192, 31>>, TYPE_A, 300, 4, <<192, 0, 2, 1>>)>>),
      Reply(0, 1, 0, <<wireRecord(<<1, 97, 0>>, TYPE_NS, 300, 3, <<1, 98, 0>>)>>),
      Reply(1, 0, 1, <<wireRecord(<<192, 12>>, TYPE_A, 300, 6, <<1, 2, 3, 4>>),
                       wireRecord(<<192, 12>>, TYPE_TXT, 300, 0, <<>>)>>),
      Reply(1, 0, 0, <<wireRecord(<<192, 19>>, TYPE_A, 300, 4, <<1, 2, 3, 4>>)>>),
      Reply(1, 0, 0, <<wireRecord(<<0>>, TYPE_TXT, 300, 1, <<9>>)>>) }

Prefixes(b) == {SubSeq(b, 1, n) : n \in 0..Len(b)}

(***************************************************************************)
(* The decoder as a state machine: parseDNSPacket, with decodeName one     *)
(* step per loop iteration (it need not return).                           *)
(***************************************************************************)
NoHeader == DNSHeader(0, 0, 0, 0, 0, 0)

\* parseRecord's locals before they are assigned.  at and payloadAt are history:
\* the offsets where the record and its payload start (-1: not yet known).
NoRecord ==
    [name |-> <<>>, type_ |-> 0, class_ |-> 0, ttl |-> 0, dataLen |-> 0,
     at |-> 0 - 1, payloadAt |-> 0 - 1]

Frame(start, orig) == [start |-> start, parts |-> <<>>, orig |-> orig]

Top == stack[Len(stack)]

\* The decoder at the start of decodeName(reader) on its own.
InitName ==
    \E buf \in Buffers : \E s \in 0..Len(buf) :
        /\ data = buf
        /\ position = s
        /\ pc = "name"
        /\ stack = <<Frame(s, 0 - 1)>>
        /\ nameFor = "top"
        /\ msg = [kind |-> "name", start |-> s]

\* The decoder at the start of parseDNSPacket(data).
InitPacket ==
    /\ \/ \E m \in QueryMessages \cup ReplyMessages : \E b \in Prefixes(encodeMessage(m)) :
            /\ data = b
            /\ msg = [kind |-> "packet", message |-> m, whole |-> (b = encodeMessage(m))]
       \/ \E dn \in DomainNames : \E t \in {TYPE_A, TYPE_NS, TYPE_TXT} : \E id \in Ids :
            /\ data = buildQuery(dn, t, id)
            /\ msg = [kind |-> "packet", whole |-> TRUE,
                      message |-> [header |-> DNSHeader(id, 0, 1, 0, 0, 0),
                                   questions |-> <<DNSQuestion(dn, t, CLASS_IN)>>,
                                   tail |-> <<>>]]
    /\ position = 0
    /\ pc = "header"
    /\ stack = <<>>
    /\ nameFor = ""

InitCodec ==
    /\ InitName \/ InitPacket
    /\ err = ""
    /\ retName = <<>>
    /\ header = NoHeader
    /\ questions = <<>>
    /\ answers = <<>>
    /\ authorities = <<>>
    /\ additionals = <<>>
    /\ sec = 0
    /\ idx = 0
    /\ rec = NoRecord
    /\ trail = <<>>
    /\ shortRead = FALSE
    /\ calls = <<>>
    /\ outcome = [state |-> "idle", ip |-> <<>>, error |-> "", depth |-> 0]
    /\ wire = [sent |-> FALSE, to |-> <<>>, query |-> <<>>]
    /\ nSent = 0
    /\ runs = <<>>

\* throw: the exception leaves parseDNSPacket, nothing is returned.
Raise(kind) ==
    /\ pc' = "error"
    /\ err' = kind
    /\ UNCHANGED <<data, position, stack, nameFor, retName, header, questions,
                   answers, authorities, additionals, sec, idx, rec, shortRead, msg, trail>>
    /\ UNCHANGED resolverVars

Count(k) ==
    CASE k = 1 -> header.numQuestions
      [] k = 2 -> header.numAnswers
      [] k = 3 -> header.numAuthorities
      [] OTHER -> header.numAdditionals

\* The record put at the front of its list instead of pushed at its end.
PushRecordFront(r) ==
    /\ answers' = IF sec = 2 THEN <<r>> \o answers ELSE answers
    /\ authorities' = IF sec = 3 THEN <<r>> \o authorities ELSE authorities
    /\ additionals' = IF sec = 4 THEN <<r>> \o additionals ELSE additionals
    /\ idx' = idx + 1
    /\ trail' = Append(trail, [sec |-> sec, at |-> rec.at, entry |-> r])

\* answers.push(...) / authorities.push(...) / additionals.push(...), then i++.
PushRecord(r) ==
    /\ answers' = IF sec = 2 THEN Append(answers, r) ELSE answers
    /\ authorities' = IF sec = 3 THEN Append(authorities, r) ELSE authorities
    /\ additionals' = IF sec = 4 THEN Append(additionals, r) ELSE additionals
    /\ idx' = idx + 1
    /\ trail' = Append(trail, [sec |-> sec, at |-> rec.at, entry |-> r])

\* parseHeader: read(12), unpack, new DNSHeader(items[0], ..., items[5]); a
\* count that is undefined takes its default, 0.
ParseHeader ==
    /\ pc = "header"
    /\ UNCHANGED resolverVars
    /\ IF readThrows(data, position) THEN Raise("read")
       ELSE LET b == readData(data, position, 12) IN
            IF unpackThrows(b) THEN Raise("range")
            ELSE LET items == unpackUnsignedShortsBigEndian(b)
                     arg(k) == IF k <= Len(items) THEN items[k] ELSE undefined
                     dflt(k) == IF k <= Len(items) THEN items[k] ELSE 0
                 IN  /\ header' = DNSHeader(arg(1), arg(2), dflt(3), dflt(4),
                                            dflt(5), dflt(6))
                     /\ position' = readEnd(data, position, 12)
                     /\ shortRead' = (shortRead \/ Len(b) < 12)
                     /\ pc' = "loop"
                     /\ sec' = 1
                     /\ idx' = 0
                     /\ UNCHANGED <<data, err, stack, nameFor, retName, questions,
                                    answers, authorities, additionals, rec, msg, trail>>

\* parseQuestion: decodeNameSimple, read(4), two getUint16 (a RangeError when
\* fewer than 4 bytes came back).
ParseQuestion ==
    /\ pc = "loop"
    /\ UNCHANGED resolverVars
    /\ sec = 1
    /\ idx < header.numQuestions
    /\ LET n == decodeNameSimple(data, position) IN
       IF ~n.ok THEN Raise(n.err)
       ELSE IF readThrows(data, n.pos) THEN Raise("read")
       ELSE LET buffer == readData(data, n.pos, 4) IN
            IF Len(buffer) < 4 THEN Raise("range")
            ELSE LET q == DNSQuestion(n.name, buffer[1] * 256 + buffer[2],
                                      buffer[3] * 256 + buffer[4])
                 IN  /\ questions' = Append(questions, q)
                     /\ trail' = Append(trail, [sec |-> 1, at |-> position, entry |-> q])
                     /\ position' = readEnd(data, n.pos, 4)
                     /\ shortRead' = (shortRead \/ n.short)
                     /\ idx' = idx + 1
                     /\ UNCHANGED <<data, pc, err, stack, nameFor, retName, header,
                                    answers, authorities, additionals, sec, rec, msg>>

\* for (...; i < header.numX; ...) parseRecord(reader): its decodeName starts.
StartRecord ==
    /\ pc = "loop"
    /\ UNCHANGED resolverVars
    /\ sec \in 2..4
    /\ idx < Count(sec)
    /\ pc' = "name"
    /\ nameFor' = "record"
    /\ stack' = <<Frame(position, 0 - 1)>>
    /\ rec' = [NoRecord EXCEPT !.at = position]
    /\ UNCHANGED <<data, position, err, retName, header, questions, answers,
                   authorities, additionals, sec, idx, shortRead, msg, trail>>

\* The loop of a section is over: the next section, or return the packet.
NextSection ==
    /\ pc = "loop"
    /\ UNCHANGED resolverVars
    /\ idx >= Count(sec)
    /\ IF sec = 4
       THEN pc' = "done" /\ UNCHANGED <<sec, idx>>
       ELSE pc' = "loop" /\ sec' = sec + 1 /\ idx' = 0
    /\ UNCHANGED <<data, position, err, stack, nameFor, retName, header, questions,
                   answers, authorities, additionals, rec, shortRead, msg, trail>>

\* decodeName: reader.read(1) at the end of the buffer throws.
NameReadFails ==
    /\ pc = "name"
    /\ UNCHANGED resolverVars
    /\ readThrows(data, position)
    /\ Raise("read")

\* decodeName: the length byte is 0, the loop ends and the parts are joined.
NameEnd ==
    /\ pc = "name"
    /\ UNCHANGED resolverVars
    /\ ~readThrows(data, position)
    /\ data[position + 1] = 0
    /\ IF joinThrows(Top.parts) THEN Raise("join")
       ELSE /\ position' = position + 1
            /\ retName' = joinUint8ArrayWithDot(Top.parts)
            /\ pc' = "ret"
            /\ UNCHANGED <<data, err, stack, nameFor, header, questions, answers,
                           authorities, additionals, sec, idx, rec, shortRead, msg, trail>>

\* decodeName: a length byte that is no pointer; parts.push(reader.read(length)).
ReadLabel ==
    /\ pc = "name"
    /\ UNCHANGED resolverVars
    /\ ~readThrows(data, position)
    /\ LET length == data[position + 1] IN
       /\ length # 0
       /\ ~isPointer(length)
       /\ IF readThrows(data, position + 1) THEN Raise("read")
          ELSE LET part == readData(data, position + 1, length) IN
               /\ position' = readEnd(data, position + 1, length)
               /\ stack' = [stack EXCEPT ![Len(stack)].parts = Append(@, part)]
               /\ shortRead' = (shortRead \/ Len(part) < length)
               /\ UNCHANGED <<data, pc, err, nameFor, retName, header, questions,
                              answers, authorities, additionals, sec, idx, rec, msg, trail>>

\* decodeName: a length byte taken for a pointer; decodeCompressedName reads the
\* second byte, saves the position, seeks and calls decodeName.
FollowPointer ==
    /\ pc = "name"
    /\ UNCHANGED resolverVars
    /\ ~readThrows(data, position)
    /\ LET length == data[position + 1] IN
       /\ isPointer(length)
       /\ IF readThrows(data, position + 1) THEN Raise("read")
          ELSE LET pointer == pointerOf(length, data[position + 2])
                   originalPosition == position + 2
               IN  IF seekThrows(data, pointer) THEN Raise("seek")
                   ELSE /\ Len(stack) < MaxDepth
                        /\ position' = pointer
                        /\ stack' = Append(stack, Frame(pointer, originalPosition))
                        /\ UNCHANGED <<data, pc, err, nameFor, retName, header,
                                       questions, answers, authorities, additionals,
                                       sec, idx, rec, shortRead, msg, trail>>

\* decodeCompressedName after the nested decodeName: reader.seek(originalPosition)
\* puts the cursor back, whatever its position is by then.
seekBackSkipped(originalPosition, current) == current

seekBack(originalPosition, current) == originalPosition

\* decodeName returns retName. To decodeCompressedName: seek(originalPosition),
\* the caller pushes the name, breaks and joins its own parts. To parseRecord:
\* the name is the record's name or its NS data.
Return ==
    /\ pc = "ret"
    /\ UNCHANGED resolverVars
    /\ IF Top.orig >= 0
       THEN IF seekThrows(data, Top.orig) THEN Raise("seek")
            ELSE LET caller == stack[Len(stack) - 1]
                     parts == Append(caller.parts, retName)
                 IN  /\ position' = seekBack(Top.orig, position)
                     /\ stack' = [SubSeq(stack, 1, Len(stack) - 1)
                                    EXCEPT ![Len(stack) - 1].parts = parts]
                     /\ retName' = joinUint8ArrayWithDot(parts)
                     /\ UNCHANGED <<data, pc, err, nameFor, header, questions, answers,
                                    authorities, additionals, sec, idx, rec,
                                    shortRead, msg, trail>>
       ELSE /\ stack' = <<>>
            /\ UNCHANGED <<data, position, err, nameFor, retName, header, questions,
                           sec, shortRead, msg>>
            /\ CASE nameFor = "record" ->
                      /\ pc' = "fixed"
                      /\ rec' = [rec EXCEPT !.name = retName]
                      /\ UNCHANGED <<answers, authorities, additionals, idx, trail>>
                 [] nameFor = "data" ->
                      /\ pc' = "loop"
                      /\ PushRecord(DNSRecord(rec.name, rec.type_, rec.class_,
                                              rec.ttl, retName))
                      /\ UNCHANGED rec
                 [] OTHER ->
                      /\ pc' = "done"
                      /\ UNCHANGED <<answers, authorities, additionals, idx, rec,
                                     trail>>

\* parseRecord after the name: read(10), the four fields (a RangeError when
\* fewer than 10 bytes came back); for type NS the payload is a name that
\* decodeName decodes, for the other types it is read next.
ParseRecordBody ==
    /\ pc = "fixed"
    /\ UNCHANGED resolverVars
    /\ IF readThrows(data, position) THEN Raise("read")
       ELSE LET buffer == readData(data, position, 10) IN
            IF Len(buffer) < 10 THEN Raise("range")
            ELSE LET type_ == buffer[1] * 256 + buffer[2]
                     class_ == buffer[3] * 256 + buffer[4]
                     ttl == ((buffer[5] * 256 + buffer[6]) * 256 + buffer[7]) * 256
                            + buffer[8]
                     dataLen == buffer[9] * 256 + buffer[10]
                     p == readEnd(data, position, 10)
                 IN  /\ rec' = [rec EXCEPT !.type_ = type_, !.class_ = class_,
                                           !.ttl = ttl, !.dataLen = dataLen,
                                           !.payloadAt = p]
                     /\ position' = p
                     /\ IF type_ = TYPE_NS
                        THEN /\ pc' = "name"
                             /\ nameFor' = "data"
                             /\ stack' = <<Frame(p, 0 - 1)>>
                        ELSE /\ pc' = "payload"
                             /\ UNCHANGED <<nameFor, stack>>
                     /\ UNCHANGED <<data, err, retName, header, questions, answers,
                                    authorities, additionals, sec, idx, shortRead,
                                    msg, trail>>

\* parseRecord, type A: ipToString(reader.read(4)); any other type but NS:
\* reader.read(dataLen).  The record is returned and pushed.
ReadPayload ==
    /\ pc = "payload"
    /\ UNCHANGED resolverVars
    /\ IF readThrows(data, position) THEN Raise("read")
       ELSE LET n == IF rec.type_ = TYPE_A THEN 4 ELSE rec.dataLen
                payload == readData(data, position, n)
            IN  /\ PushRecord(DNSRecord(rec.name, rec.type_, rec.class_, rec.ttl,
                                IF rec.type_ = TYPE_A THEN ipToString(payload)
                                                      ELSE payload))
                /\ position' = readEnd(data, position, n)
                /\ shortRead' = (shortRead \/ Len(payload) < n)
                /\ pc' = "loop"
                /\ UNCHANGED <<data, err, stack, nameFor, retName, header,
                               questions, sec, rec, msg>>

NextCodec ==
    \/ ParseHeader
    \/ ParseQuestion
    \/ StartRecord
    \/ NextSection
    \/ NameReadFails
    \/ NameEnd
    \/ ReadLabel
    \/ FollowPointer
    \/ Return
    \/ ParseRecordBody
    \/ ReadPayload

SpecCodec == InitCodec /\ [][NextCodec]_vars

(***************************************************************************)
(* resolve.ts, part 3: the resolver.  sendQuery's parseDNSPacket is        *)
(* synchronous: a reply is taken here as the packet it decodes to, or as   *)
(* the exception the decoder throws.                                       *)
(***************************************************************************)
MaxNest == 2        \* resolve calls nested before the model stops
MaxQueries == 4     \* sendQuery calls before the model stops

\* "198.41.0.4"
rootServer == <<49, 57, 56, 46, 52, 49, 46, 48, 46, 52>>

DNSPacket(h, qs, ans, auth, add) ==
    [header |-> h, questions |-> qs, answers |-> ans, authorities |-> auth,
     additionals |-> add]

RECURSIVE getAnswerFrom(_)
getAnswerFrom(rs) ==
    IF rs = <<>> THEN <<>>
    ELSE IF Head(rs).type_ = TYPE_A THEN Head(rs).data
    ELSE getAnswerFrom(Tail(rs))

\* getAnswer keeping the last match instead of returning at the first.
RECURSIVE getAnswerLastFrom(_)
getAnswerLastFrom(rs) ==
    IF rs = <<>> THEN <<>>
    ELSE IF rs[Len(rs)].type_ = TYPE_A THEN rs[Len(rs)].data
    ELSE getAnswerLastFrom(SubSeq(rs, 1, Len(rs) - 1))

getAnswerLast(packet) == getAnswerLastFrom(packet.answers)

getAnswer(packet) == getAnswerFrom(packet.answers)

RECURSIVE getNameserverIpFrom(_)
getNameserverIpFrom(rs) ==
    IF rs = <<>> THEN <<>>
    ELSE IF Head(rs).type_ = TYPE_A THEN Head(rs).data
    ELSE getNameserverIpFrom(Tail(rs))

getNameserverIp(packet) == getNameserverIpFrom(packet.additionals)

RECURSIVE getNameserverFrom(_)
getNameserverFrom(rs) ==
    IF rs = <<>> THEN <<>>
    ELSE IF Head(rs).type_ = TYPE_NS THEN textDecode(Head(rs).data)
    ELSE getNameserverFrom(Tail(rs))

getNameserver(packet) == getNameserverFrom(packet.authorities)

\* The chain of resolve with the nameserver name tried before the glue.
nextStepNameserverFirst(response) ==
    LET ip == getAnswer(response)
        nsIP == getNameserverIp(response)
        nsDomain == getNameserver(response)
    IN  IF ip # <<>> THEN "answer"
        ELSE IF nsDomain # <<>> THEN "nameserver"
        ELSE IF nsIP # <<>> THEN "glue"
        ELSE "throw"

\* The if / else if chain of resolve; a string is truthy when it is not empty.
nextStep(response) ==
    LET ip == getAnswer(response)
        nsIP == getNameserverIp(response)
        nsDomain == getNameserver(response)
    IN  IF ip # <<>> THEN "answer"
        ELSE IF nsIP # <<>> THEN "glue"
        ELSE IF nsDomain # <<>> THEN "nameserver"
        ELSE "throw"

\* A loop that gives up once two queries were sent.
loopConditionBounded(sent) == sent < 2

\* while (true): the loop of resolve has no condition, it counts nothing.
loopCondition(sent) == TRUE

\* An exception caught by the calling resolve, which queries again.
propagateToCaller(cs) ==
    IF Len(cs) <= 1 THEN <<>>
    ELSE [SubSeq(cs, 1, Len(cs) - 1) EXCEPT ![Len(cs) - 1].at = "query"]

\* An exception in resolve or sendQuery is caught nowhere: it ends every
\* enclosing resolve call.
propagate(cs) == <<>>

\* No reply decoded yet in this call.
NoResponse == DNSPacket(NoHeader, <<>>, <<>>, <<>>, <<>>)

Call(domainName, recortType) ==
    [domainName |-> domainName, recortType |-> recortType,
     nameserver |-> rootServer, at |-> "query", response |-> NoResponse]

Active == calls[Len(calls)]

\* The nested call made with the caller's record type instead of TYPE_A.
nestedCallSameType(nsDomain) == Call(nsDomain, Active.recortType)

\* resolve(nsDomain, TYPE_A): the nested call, with locals of its own.
nestedCall(nsDomain) == Call(nsDomain, TYPE_A)

\* The caller going on with its loop without waiting for the nested call.
notAwaited(c) == [c EXCEPT !.at = "query"]

\* await resolve(...): the caller is suspended until the nested call settles.
awaitNested(c) == [c EXCEPT !.at = "await"]

SetActive(c) == [calls EXCEPT ![Len(calls)] = c]

NoWire == [sent |-> FALSE, to |-> <<>>, query |-> <<>>]

Threw(kind) ==
    /\ calls' = propagate(calls)
    /\ outcome' = [state |-> "threw", ip |-> <<>>, error |-> kind, depth |-> Len(calls)]

(***************************************************************************)
(* The replies of the model's servers, as parseDNSPacket returns them.     *)
(***************************************************************************)
RecA(bytes) == DNSRecord(<<97>>, TYPE_A, CLASS_IN, 300, ipToString(bytes))

RecNS(name) == DNSRecord(<<97>>, TYPE_NS, CLASS_IN, 300, name)

RecTXT == DNSRecord(<<97>>, TYPE_TXT, CLASS_IN, 300, <<7, 8>>)

A1 == RecA(<<192, 0, 2, 1>>)

A2 == RecA(<<10, 0, 0, 1>>)

\* "ns.a" and "b"
NS1 == RecNS(<<110, 115, DOT, 97>>)

NS2 == RecNS(<<98>>)

AnswerSections == {<<>>, <<A1>>, <<RecTXT, A2, A1>>, <<NS1>>}

AuthoritySections == {<<>>, <<RecTXT, NS1, NS2>>, <<A1>>}

AdditionalSections == {<<>>, <<RecTXT, A2, A1>>, <<NS1>>}

Replies ==
    {DNSPacket(DNSHeader(4884, 32768, 0, Len(ans), Len(auth), Len(add)),
               <<>>, ans, auth, add) :
        ans \in AnswerSections, auth \in AuthoritySections, add \in AdditionalSections}

\* "a.b" and "ab"
TopNames == {<<97, DOT, 98>>, <<97, 98>>}

DecodeErrors == {"read", "range", "seek", "join"}

\* A caller calls resolve(domainName, recortType).
InitResolve ==
    /\ \E dn \in TopNames : \E t \in {TYPE_A, TYPE_TXT} : calls = <<Call(dn, t)>>
    /\ outcome = [state |-> "running", ip |-> <<>>, error |-> "", depth |-> 0]
    /\ wire = NoWire
    /\ nSent = 0
    /\ runs = <<>>
    /\ data = <<>>
    /\ position = 0
    /\ pc = "idle"
    /\ err = ""
    /\ stack = <<>>
    /\ nameFor = ""
    /\ retName = <<>>
    /\ header = NoHeader
    /\ questions = <<>>
    /\ answers = <<>>
    /\ authorities = <<>>
    /\ additionals = <<>>
    /\ sec = 0
    /\ idx = 0
    /\ rec = NoRecord
    /\ trail = <<>>
    /\ shortRead = FALSE
    /\ msg = [kind |-> "none"]

\* sendQuery up to its await: buildQuery, listenDatagram, socket.send (whose
\* promise nobody awaits: when the send fails, sendQuery goes on all the same).
SendQuery ==
    /\ calls # <<>>
    /\ Active.at = "query"
    /\ loopCondition(nSent)
    /\ nSent < MaxQueries
    /\ \E id \in Ids : \E ok \in BOOLEAN :
          wire' = [sent |-> ok, to |-> Active.nameserver,
                   query |-> buildQuery(Active.domainName, Active.recortType, id)]
    /\ calls' = SetActive([Active EXCEPT !.at = "receive"])
    /\ nSent' = nSent + 1
    /\ UNCHANGED <<outcome, codecVars, runs>>

\* await socket.receive() gives a datagram, socket.close(), parseDNSPacket
\* returns a packet.
Receive ==
    /\ calls # <<>>
    /\ Active.at = "receive"
    /\ wire.sent
    /\ \E reply \in Replies :
          calls' = SetActive([Active EXCEPT !.at = "got", !.response = reply])
    /\ wire' = NoWire
    /\ UNCHANGED <<outcome, nSent, codecVars, runs>>

\* await socket.receive() gives a datagram that parseDNSPacket throws on.
ReceiveMalformed ==
    /\ calls # <<>>
    /\ Active.at = "receive"
    /\ wire.sent
    /\ \E kind \in DecodeErrors : Threw(kind)
    /\ wire' = NoWire
    /\ UNCHANGED <<nSent, codecVars, runs>>

\* await socket.receive() rejects.
ReceiveFails ==
    /\ calls # <<>>
    /\ Active.at = "receive"
    /\ Threw("receive")
    /\ wire' = NoWire
    /\ UNCHANGED <<nSent, codecVars, runs>>

\* if (ip) return ip; in a nested call the caller takes it as its nameserver.
ReturnAnswer ==
    /\ calls # <<>>
    /\ Active.at = "got"
    /\ nextStep(Active.response) = "answer"
    /\ LET ip == getAnswer(Active.response) IN
       IF Len(calls) = 1
       THEN /\ calls' = <<>>
            /\ outcome' = [state |-> "returned", ip |-> ip, error |-> "", depth |-> 1]
       ELSE /\ calls' = [SubSeq(calls, 1, Len(calls) - 1) EXCEPT
                           ![Len(calls) - 1].nameserver = ip,
                           ![Len(calls) - 1].at = "query"]
            /\ UNCHANGED outcome
    /\ UNCHANGED <<wire, nSent, codecVars, runs>>

\* else if (nsIP) nameserver = nsIP
FollowGlue ==
    /\ calls # <<>>
    /\ Active.at = "got"
    /\ nextStep(Active.response) = "glue"
    /\ calls' = SetActive([Active EXCEPT !.nameserver = getNameserverIp(Active.response),
                                         !.at = "query"])
    /\ UNCHANGED <<outcome, wire, nSent, codecVars, runs>>

\* else if (nsDomain) nameserver = await resolve(nsDomain, TYPE_A)
ResolveNameserver ==
    /\ calls # <<>>
    /\ Active.at = "got"
    /\ nextStep(Active.response) = "nameserver"
    /\ Len(calls) < MaxNest
    /\ calls' = Append(SetActive(awaitNested(Active)),
                       nestedCall(getNameserver(Active.response)))
    /\ UNCHANGED <<outcome, wire, nSent, codecVars, runs>>

\* else throw new Error("Something went wrong")
Fail ==
    /\ calls # <<>>
    /\ Active.at = "got"
    /\ nextStep(Active.response) = "throw"
    /\ Threw("Something went wrong")
    /\ UNCHANGED <<wire, nSent, codecVars, runs>>

NextResolve ==
    \/ SendQuery
    \/ Receive
    \/ ReceiveMalformed
    \/ ReceiveFails
    \/ ReturnAnswer
    \/ FollowGlue
    \/ ResolveNameserver
    \/ Fail

SpecResolve == InitResolve /\ [][NextResolve]_vars

\* resolve with its continuations scheduled: a step that can be taken (the
\* event loop runs the continuation of a settled await) is taken eventually.
SpecResolveFair == SpecResolve /\ WF_vars(NextResolve)

(***************************************************************************)
(* Several resolve invocations in parallel (Promise.all of resolve calls): *)
(* each runs the code of resolve on locals of its own; a step is the run   *)
(* of one invocation between two awaits, or finer.  Every sendQuery opens  *)
(* a socket of its own, so a reply reaches the invocation whose query it   *)
(* answers.                                                                *)
(***************************************************************************)
MaxParQueries == 3  \* sendQuery calls of one invocation before the model stops

\* The arguments of the invocations: ("a.b", TXT) and ("ab", A).
ParArgs ==
    <<[domainName |-> <<97, DOT, 98>>, recortType |-> TYPE_TXT],
      [domainName |-> <<97, 98>>, recortType |-> TYPE_A]>>

ReplyOf(ans, auth, add) ==
    DNSPacket(DNSHeader(4884, 32768, 0, Len(ans), Len(auth), Len(add)),
              <<>>, ans, auth, add)

\* Two answers, a referral with glue, a referral with nameserver names only,
\* and a reply that holds nothing.
ParReplies ==
    {ReplyOf(<<A1>>, <<>>, <<>>),
     ReplyOf(<<RecTXT, A2, A1>>, <<>>, <<>>),
     ReplyOf(<<>>, <<RecTXT, NS1, NS2>>, <<RecTXT, A2, A1>>),
     ReplyOf(<<>>, <<RecTXT, NS1, NS2>>, <<>>),
     ReplyOf(<<>>, <<>>, <<>>)}

RunStart(i) ==
    [calls |-> <<Call(ParArgs[i].domainName, ParArgs[i].recortType)>>,
     outcome |-> [state |-> "running", ip |-> <<>>, error |-> "", depth |-> 0],
     asked |-> <<>>,
     heard |-> <<>>]

RunTop(i) == runs[i].calls[Len(runs[i].calls)]

\* One nameserver variable for all invocations: that of the first invocation
\* while it runs.
currentNameserverShared(i) ==
    IF runs[1].calls # <<>> THEN RunTop(1).nameserver ELSE RunTop(i).nameserver

\* `let nameserver` is a local of the resolve call that passes it to sendQuery.
currentNameserver(i) == RunTop(i).nameserver

InitParallel ==
    /\ runs = [i \in 1..Len(ParArgs) |-> RunStart(i)]
    /\ calls = <<>>
    /\ outcome = [state |-> "idle", ip |-> <<>>, error |-> "", depth |-> 0]
    /\ wire = NoWire
    /\ nSent = 0
    /\ data = <<>>
    /\ position = 0
    /\ pc = "idle"
    /\ err = ""
    /\ stack = <<>>
    /\ nameFor = ""
    /\ retName = <<>>
    /\ header = NoHeader
    /\ questions = <<>>
    /\ answers = <<>>
    /\ authorities = <<>>
    /\ additionals = <<>>
    /\ sec = 0
    /\ idx = 0
    /\ rec = NoRecord
    /\ trail = <<>>
    /\ shortRead = FALSE
    /\ msg = [kind |-> "none"]

\* Invocation i: sendQuery up to its await, on a socket of its own.
ParSend(i) ==
    /\ runs[i].calls # <<>>
    /\ RunTop(i).at = "query"
    /\ Len(runs[i].asked) < MaxParQueries
    /\ runs' = [runs EXCEPT ![i].calls[Len(runs[i].calls)].at = "receive",
                            ![i].asked = Append(@, currentNameserver(i))]
    /\ UNCHANGED <<calls, outcome, wire, nSent, codecVars>>

\* Invocation i: its socket.receive() gives a datagram, parseDNSPacket decodes
\* it with a reader of its own.
ParReceive(i) ==
    /\ runs[i].calls # <<>>
    /\ RunTop(i).at = "receive"
    /\ \E reply \in ParReplies :
          runs' = [runs EXCEPT ![i].calls[Len(runs[i].calls)].at = "got",
                               ![i].calls[Len(runs[i].calls)].response = reply,
                               ![i].heard = Append(@, reply)]
    /\ UNCHANGED <<calls, outcome, wire, nSent, codecVars>>

\* Invocation i: the if / else if chain of resolve on the reply it received.
ParDecide(i) ==
    /\ runs[i].calls # <<>>
    /\ RunTop(i).at = "got"
    /\ LET cs == runs[i].calls
           n == Len(cs)
           response == RunTop(i).response
           step == nextStep(response)
       IN  CASE step = "answer" ->
                  IF n = 1
                  THEN runs' = [runs EXCEPT
                                  ![i].calls = <<>>,
                                  ![i].outcome = [state |-> "returned",
                                                  ip |-> getAnswer(response),
                                                  error |-> "", depth |-> 1]]
                  ELSE runs' = [runs EXCEPT
                                  ![i].calls = [SubSeq(cs, 1, n - 1) EXCEPT
                                                  ![n - 1].nameserver = getAnswer(response),
                                                  ![n - 1].at = "query"]]
             [] step = "glue" ->
                  runs' = [runs EXCEPT
                             ![i].calls[n].nameserver = getNameserverIp(response),
                             ![i].calls[n].at = "query"]
             [] step = "nameserver" ->
                  /\ n < MaxNest
                  /\ runs' = [runs EXCEPT
                                ![i].calls = Append([cs EXCEPT ![n] = awaitNested(cs[n])],
                                                    nestedCall(getNameserver(response)))]
             [] OTHER ->
                  runs' = [runs EXCEPT
                             ![i].calls = propagate(cs),
                             ![i].outcome = [state |-> "threw", ip |-> <<>>,
                                             error |-> "Something went wrong",
                                             depth |-> n]]
    /\ UNCHANGED <<calls, outcome, wire, nSent, codecVars>>

NextParallel ==
    \E i \in DOMAIN runs :
        \/ ParSend(i)
        \/ ParReceive(i)
        \/ ParDecide(i)

SpecParallel == InitParallel /\ [][NextParallel]_vars

\* The decoder and the resolver together.
Init == InitCodec \/ InitResolve \/ InitParallel

Next == NextCodec \/ NextResolve \/ NextParallel

Spec == Init /\ [][Next]_vars

(***************************************************************************)
(* Properties.                                                             *)
(***************************************************************************)
HasType(rs, t) == \E i \in 1..Len(rs) : rs[i].type_ = t

\* The first record of type t in rs, by position.
FirstOfType(rs, t) ==
    rs[CHOOSE i \in 1..Len(rs) :
          /\ rs[i].type_ = t
          /\ \A j \in 1..(i - 1) : rs[j].type_ # t]

AtGot == calls # <<>> /\ Active.at = "got"

Caller == calls[Len(calls) - 1]

\* C1: for every decoded reply the next step of resolve follows the priority
\* answer A (return its address), else additional A (the nameserver becomes it,
\* no nested resolve, whatever the authorities hold), else authority NS (a
\* nested resolve of that name starts), else resolve fails.
C1_Step ==
    AtGot =>
      LET r == Active.response IN
      IF HasType(r.answers, TYPE_A)
      THEN IF Len(calls) = 1
           THEN /\ outcome'.state = "returned"
                /\ outcome'.ip = FirstOfType(r.answers, TYPE_A).data
           ELSE /\ Len(calls') = Len(calls) - 1
                /\ calls'[Len(calls')].nameserver = FirstOfType(r.answers, TYPE_A).data
      ELSE IF HasType(r.additionals, TYPE_A)
      THEN /\ Len(calls') = Len(calls)
           /\ calls'[Len(calls')].nameserver = FirstOfType(r.additionals, TYPE_A).data
           /\ calls'[Len(calls')].at = "query"
           /\ outcome' = outcome
      ELSE IF HasType(r.authorities, TYPE_NS)
      THEN /\ Len(calls') = Len(calls) + 1
           /\ calls'[Len(calls')].domainName = FirstOfType(r.authorities, TYPE_NS).data
           /\ calls'[Len(calls')].at = "query"
           /\ outcome' = outcome
      ELSE outcome'.state = "threw"

C1_DecisionPrecedence == [][C1_Step]_vars

\* C1 witness: a reply with glue and an authority NS record was followed by its
\* glue: the same call is about to query the glue address.
C1_Witness ==
    /\ Len(calls) = 1
    /\ Active.at = "query"
    /\ nSent > 0
    /\ ~HasType(Active.response.answers, TYPE_A)
    /\ HasType(Active.response.authorities, TYPE_NS)
    /\ HasType(Active.response.additionals, TYPE_A)
    /\ Active.nameserver = A2.data

\* C2: getAnswer, getNameserverIp and getNameserver give the first matching
\* record of their section in wire order (the data of the first A answer, the
\* data of the first A additional, the name in the first NS authority), whatever
\* other records the section holds.
C2_FirstMatch ==
    AtGot =>
      LET r == Active.response IN
      /\ getAnswer(r) =
           IF HasType(r.answers, TYPE_A)
           THEN FirstOfType(r.answers, TYPE_A).data ELSE <<>>
      /\ getNameserverIp(r) =
           IF HasType(r.additionals, TYPE_A)
           THEN FirstOfType(r.additionals, TYPE_A).data ELSE <<>>
      /\ getNameserver(r) =
           IF HasType(r.authorities, TYPE_NS)
           THEN FirstOfType(r.authorities, TYPE_NS).data ELSE <<>>

\* C2 witness: a reply whose answers are a TXT record and two A records with
\* different addresses, whose authorities hold two NS records behind a TXT.
C2_Witness ==
    /\ AtGot
    /\ Active.response.answers = <<RecTXT, A2, A1>>
    /\ Active.response.authorities = <<RecTXT, NS1, NS2>>
    /\ Active.response.additionals = <<RecTXT, A2, A1>>

\* C3: a reply with no A answer, no A additional and no NS authority makes
\* resolve throw, in a nested resolve too: every enclosing call ends with it,
\* and once resolve has thrown no further query is sent.
C3_Step ==
    /\ (AtGot /\ ~HasType(Active.response.answers, TYPE_A)
              /\ ~HasType(Active.response.additionals, TYPE_A)
              /\ ~HasType(Active.response.authorities, TYPE_NS))
         => /\ outcome'.state = "threw"
            /\ calls' = <<>>
            /\ nSent' = nSent
    /\ outcome.state = "threw" => (nSent' = nSent /\ wire' = wire /\ calls' = calls)

C3_UnresolvableFails == [][C3_Step]_vars

\* C3 witness: resolve threw on such a reply inside a nested resolve.
C3_Witness ==
    /\ outcome.state = "threw"
    /\ outcome.error = "Something went wrong"
    /\ outcome.depth = 2
    /\ calls = <<>>

\* C5: a transport failure ends resolve with that error: no resolve call is left
\* waiting for the reply to a query whose send failed, and once resolve has
\* thrown no call is left to retry.
C5_SendFailurePropagates ==
    /\ (calls # <<>> /\ Active.at = "receive") => wire.sent
    /\ outcome.state = "threw" => calls = <<>>

\* The question section the claim describes, label by label from the dots of
\* the name: the label that starts at index start, then the labels after it.
LabelEnd(dn, start) ==
    IF \E i \in start..Len(dn) : dn[i] = DOT
    THEN CHOOSE i \in start..Len(dn) :
            dn[i] = DOT /\ \A j \in start..(i - 1) : dn[j] # DOT
    ELSE Len(dn) + 1

RECURSIVE WireLabels(_, _)
WireLabels(dn, start) ==
    LET e == LabelEnd(dn, start) IN
    <<e - start>> \o SubSeq(dn, start, e - 1)
        \o (IF e > Len(dn) THEN <<>> ELSE WireLabels(dn, e + 1))

ExpectedAfterId(dn, t) ==
    <<0, 0, 0, 1, 0, 0, 0, 0, 0, 0>> \o WireLabels(dn, 1) \o <<0>>
        \o <<t \div 256, t % 256, 0, 1>>

\* C9: every query resolve sends, nested resolves included, is a 2-byte id,
\* flags 0000, counts 0001 0000 0000 0000, one length byte and the bytes of each
\* dot-separated label, a zero byte, the record type and class 0001.
C9_QueryLayout ==
    (calls # <<>> /\ Active.at = "receive") =>
       /\ Len(wire.query) >= 2
       /\ wire.query[1] \in 0..255
       /\ wire.query[2] \in 0..255
       /\ SubSeq(wire.query, 3, Len(wire.query))
            = ExpectedAfterId(Active.domainName, Active.recortType)

\* C9 witness: the query of a nested resolve for the two-label name "ns.a" is
\* on the wire.
C9_Witness ==
    /\ Len(calls) = 2
    /\ Active.at = "receive"
    /\ wire.sent
    /\ Active.domainName = <<110, 115, DOT, 97>>
    /\ wire.query = <<19, 20, 0, 0, 0, 1, 0, 0, 0, 0, 0, 0,
                      2, 110, 115, 1, 97, 0, 0, 1, 0, 1>>

\* C4: decoding never silently truncates: parseDNSPacket returns no message
\* from a buffer on which some read(n) came back with fewer than n bytes.
C4_NoSilentTruncation ==
    (msg.kind = "packet" /\ pc = "done") => ~shortRead

\* C6: decoding a name with a pointer cycle fails after a bounded number of
\* steps.  Every decodeName call but the first is entered through a pointer of
\* the buffer, so a decode that follows no pointer twice never nests deeper than
\* the buffer has bytes.
C6_PointerCycleFails ==
    Len(stack) <= Len(data) + 1

\* The name at offset p of buffer d as the wire format defines it: its labels
\* (lengths 1..63), ended by a zero byte or continued at the target of a
\* pointer (a length byte >= 192), whose offset is the low 6 bits of that byte
\* times 256 plus the next byte.  fuel bounds the pointers followed.
\* rootTarget: some pointer followed leads to a name without labels.
NoName == [ok |-> FALSE, labels |-> <<>>, pointers |-> 0, rootTarget |-> FALSE]

RECURSIVE WireName(_, _, _)
WireName(d, p, fuel) ==
    IF fuel = 0 \/ p >= Len(d) THEN NoName
    ELSE LET b == d[p + 1] IN
         IF b = 0
         THEN [ok |-> TRUE, labels |-> <<>>, pointers |-> 0, rootTarget |-> FALSE]
         ELSE IF b >= 192
         THEN IF p + 1 >= Len(d) THEN NoName
              ELSE LET n == WireName(d, (b % 64) * 256 + d[p + 2], fuel - 1) IN
                   [n EXCEPT !.pointers = @ + 1,
                             !.rootTarget = @ \/ n.labels = <<>>]
         ELSE IF b >= 64 \/ p + 1 + b > Len(d) THEN NoName
         ELSE LET n == WireName(d, p + 1 + b, fuel) IN
              [n EXCEPT !.labels = <<SubSeq(d, p + 2, p + 1 + b)>> \o @]

RECURSIVE Dotted(_)
Dotted(labels) ==
    IF labels = <<>> THEN <<>>
    ELSE IF Len(labels) = 1 THEN labels[1]
    ELSE labels[1] \o <<DOT>> \o Dotted(Tail(labels))

NameAtStart == WireName(data, msg.start, Len(data) + 1)

\* C7: a name that is a pointer to offset p, or literal labels followed by such
\* a pointer, decodes to the labels before the pointer and the name that
\* decodeName returns at p (p = low 6 bits of the pointer byte * 256 + the next
\* byte), joined by dots.  decodeName returns a name at p when the name there
\* has a label.
C7_PointerName ==
    (/\ msg.kind = "name"
     /\ NameAtStart.ok
     /\ NameAtStart.pointers > 0
     /\ ~NameAtStart.rootTarget)
      => /\ pc # "error"
         /\ pc = "done" => retName = Dotted(NameAtStart.labels)

\* C7 witness: "b" followed by a pointer to offset 257 = 1 * 256 + 1, where the
\* name "a" is, was decoded to "b.a".
C7_Witness ==
    /\ msg.kind = "name"
    /\ pc = "done"
    /\ data = LongBuffer
    /\ msg.start = 262
    /\ retName = <<98, DOT, 97>>

\* C8: a message written by headerToBytes and questionToBytes (names encoded
\* by encodeDnsName, counts equal to the entries) is decoded by parseDNSPacket
\* to the same header fields and the same questions in the same order.
C8_RoundTrip ==
    (msg.kind = "packet" /\ msg.whole /\ msg.message.tail = <<>>) =>
       /\ pc # "error"
       /\ pc = "done" =>
            /\ header = msg.message.header
            /\ questions = [i \in 1..Len(msg.message.questions) |->
                              DNSQuestion(textEncode(msg.message.questions[i].name),
                                          msg.message.questions[i].type_,
                                          msg.message.questions[i].class_)]
            /\ answers = <<>>
            /\ authorities = <<>>
            /\ additionals = <<>>

\* C10: a name that is only the zero terminator decodes to the empty byte
\* string without an error, and a name of k >= 1 labels decodes to the labels
\* joined by single dots (length = sum of the label lengths + k - 1).
C10_NameJoin ==
    (msg.kind = "name" /\ NameAtStart.ok) =>
       /\ pc # "error"
       /\ pc = "done" => retName = Dotted(NameAtStart.labels)

\* C11: decodeName takes a nonzero length byte for a compression pointer
\* exactly when both of its top two bits are set (b >= 192): every decodeName
\* call entered through decodeCompressedName was entered from such a byte, the
\* byte two before the position saved for the way back.
C11_PointerOnlyTopTwoBits ==
    \A i \in 1..Len(stack) :
        stack[i].orig >= 0 => data[stack[i].orig - 1] >= 192

\* The offset right after the name at offset p of buffer d, as the wire format
\* defines it: after its zero byte, or after the 2 bytes of its first pointer.
RECURSIVE NameEndOffset(_, _)
NameEndOffset(d, p) ==
    IF p >= Len(d) THEN p
    ELSE LET b == d[p + 1] IN
         IF b = 0 THEN p + 1
         ELSE IF b >= 192 THEN p + 2
         ELSE NameEndOffset(d, p + 1 + b)

\* The last entry parseDNSPacket pushed.
LastEntry == trail[Len(trail)].entry

\* The 4 bytes b as dotted decimal.
DottedDecimal(b) ==
    decimal(b[1]) \o <<DOT>> \o decimal(b[2]) \o <<DOT>> \o decimal(b[3])
        \o <<DOT>> \o decimal(b[4])

\* C12: parseRecord reads the payload by type and leaves the cursor right after
\* it.  Type A: exactly the 4 bytes after the fixed fields, as dotted decimal,
\* whatever the declared length; type NS: the name at the cursor; any other
\* type: exactly data-length bytes, unchanged.  Reading a payload that the
\* buffer holds does not fail.  Stated for buffers that hold a whole message
\* (a buffer cut inside a payload is the case of C4).
C12_PayloadByType ==
    LET p == rec.payloadAt
        n == IF rec.type_ = TYPE_A THEN 4 ELSE rec.dataLen
    IN  /\ (pc = "error" /\ p >= 0 /\ rec.type_ # TYPE_NS /\ msg.whole) => p + n > Len(data)
        /\ (pc = "loop" /\ p >= 0 /\ msg.whole) =>
             IF rec.type_ = TYPE_NS
             THEN LET w == WireName(data, p, Len(data) + 1) IN
                  w.ok => /\ position = NameEndOffset(data, p)
                          /\ LastEntry.data = Dotted(w.labels)
             ELSE /\ p + n <= Len(data)
                  /\ position = p + n
                  /\ LastEntry.data =
                       IF rec.type_ = TYPE_A
                       THEN DottedDecimal(SubSeq(data, p + 1, p + 4))
                       ELSE SubSeq(data, p + 1, p + n)

\* The list parseDNSPacket keeps for section k.
Section(k) ==
    CASE k = 1 -> questions
      [] k = 2 -> answers
      [] k = 3 -> authorities
      [] OTHER -> additionals

\* The entries decoded for section k, in the order they were decoded.
RECURSIVE DecodedFor(_, _)
DecodedFor(t, k) ==
    IF t = <<>> THEN <<>>
    ELSE (IF Head(t).sec = k THEN <<Head(t).entry>> ELSE <<>>)
            \o DecodedFor(Tail(t), k)

\* C13: a message parseDNSPacket returns holds exactly numQuestions, numAnswers,
\* numAuthorities and numAdditionals entries; the sections were decoded in that
\* order; every entry starts in the buffer after the one decoded before it, and
\* each list holds its section's entries in that order.
C13_SectionCounts ==
    (pc = "done" /\ msg.kind = "packet") =>
       /\ Len(questions) = header.numQuestions
       /\ Len(answers) = header.numAnswers
       /\ Len(authorities) = header.numAuthorities
       /\ Len(additionals) = header.numAdditionals
       /\ \A i \in 1..Len(trail) : \A j \in (i + 1)..Len(trail) :
             /\ trail[i].sec <= trail[j].sec
             /\ trail[i].at < trail[j].at
       /\ \A k \in 1..4 : Section(k) = DecodedFor(trail, k)

\* C13 witness: a returned message with a question, two different answers and
\* no other record.
C13_Witness ==
    /\ pc = "done"
    /\ msg.kind = "packet"
    /\ header.numQuestions = 1
    /\ header.numAnswers = 2
    /\ answers[1] # answers[2]
    /\ Len(trail) = 3

\* The offset where the first pointer of the name at offset p of buffer d
\* starts (-1: the name has no pointer, or is no name).
RECURSIVE FirstPointerAt(_, _)
FirstPointerAt(d, p) ==
    IF p >= Len(d) THEN 0 - 1
    ELSE LET b == d[p + 1] IN
         IF b = 0 THEN 0 - 1
         ELSE IF b >= 192 THEN p
         ELSE FirstPointerAt(d, p + 1 + b)

\* C17: when decodeName has consumed a pointer, the cursor is exactly 2 bytes
\* past the start of that pointer, whatever was read at its target (nested
\* pointers included), and the name holds no label read after the pointer; the
\* fixed fields of a record are read right after its name.
C17_CursorAfterPointer ==
    /\ (msg.kind = "name" /\ pc = "done" /\ NameAtStart.ok
           /\ NameAtStart.pointers > 0)
         => /\ position = FirstPointerAt(data, msg.start) + 2
            /\ retName = Dotted(NameAtStart.labels)
    /\ (msg.kind = "packet" /\ pc = "fixed"
           /\ WireName(data, rec.at, Len(data) + 1).ok
           /\ FirstPointerAt(data, rec.at) >= 0)
         => position = FirstPointerAt(data, rec.at) + 2

\* C17 witness: the name at offset 0, a pointer to a pointer to "a", was
\* decoded to "a" and the cursor is at 2.
C17_Witness ==
    /\ msg.kind = "name"
    /\ pc = "done"
    /\ data = NestedPointerBuffer
    /\ msg.start = 0
    /\ NameAtStart.pointers = 2
    /\ retName = <<97>>
    /\ position = 2

\* C14: on a referral with an authority NS record and no type-A record in
\* answers and additionals, a nested resolve of that nameserver name starts,
\* with record type A, at the root server, with locals of its own.  While nested
\* calls run, the domain name, record type and nameserver of every waiting call
\* are unchanged.  When the nested call returns an address, its caller's
\* nameserver becomes exactly that address, its domain name and record type are
\* the original ones, and its next query goes to that address for them.
C14_Step ==
    /\ (/\ AtGot
        /\ ~HasType(Active.response.answers, TYPE_A)
        /\ ~HasType(Active.response.additionals, TYPE_A)
        /\ HasType(Active.response.authorities, TYPE_NS))
         => /\ Len(calls') = Len(calls) + 1
            /\ calls'[Len(calls')] =
                 [domainName |-> FirstOfType(Active.response.authorities, TYPE_NS).data,
                  recortType |-> TYPE_A, nameserver |-> rootServer,
                  at |-> "query", response |-> NoResponse]
            /\ calls'[Len(calls)].domainName = Active.domainName
            /\ calls'[Len(calls)].recortType = Active.recortType
            /\ calls'[Len(calls)].nameserver = Active.nameserver
    /\ \A i \in 1..(Len(calls) - 1) :
          /\ i < Len(calls') => calls'[i] = calls[i]
          /\ i = Len(calls') =>
                /\ i = Len(calls) - 1
                /\ calls'[i].domainName = calls[i].domainName
                /\ calls'[i].recortType = calls[i].recortType
                /\ calls'[i].nameserver = FirstOfType(Active.response.answers, TYPE_A).data
                /\ calls'[i].at = "query"
    /\ nSent' # nSent
         => /\ wire'.to = Active.nameserver
            /\ SubSeq(wire'.query, 3, Len(wire'.query))
                 = ExpectedAfterId(Active.domainName, Active.recortType)

C14_NestedResolve == [][C14_Step]_vars

\* C14 witness: a resolve for a TXT record, whose last reply was a referral with
\* an authority NS record only, has its query on the wire to the address the
\* nested resolve returned.
C14_Witness ==
    /\ Len(calls) = 1
    /\ Active.recortType = TYPE_TXT
    /\ Active.at = "receive"
    /\ wire.sent
    /\ ~HasType(Active.response.answers, TYPE_A)
    /\ ~HasType(Active.response.additionals, TYPE_A)
    /\ HasType(Active.response.authorities, TYPE_NS)
    /\ Active.nameserver = A1.data
    /\ wire.to = A1.data

\* A reply without a type-A answer that names a nameserver: a type-A additional
\* (glue) or an authority NS record.
IsReferral(r) ==
    /\ ~HasType(r.answers, TYPE_A)
    /\ HasType(r.additionals, TYPE_A) \/ HasType(r.authorities, TYPE_NS)

C16_Step ==
    (AtGot /\ IsReferral(Active.response))
      => /\ outcome' = outcome
         /\ Len(calls') >= Len(calls)
         /\ calls'[Len(calls')].at = "query"

\* resolve has ended, or the model's caps keep it from going on: MaxQueries
\* queries were sent, or MaxNest calls are nested and one more would start.
C16_EndedOrCapped ==
    \/ calls = <<>>
    \/ nSent = MaxQueries
    \/ /\ Len(calls) = MaxNest
       /\ AtGot
       /\ nextStep(Active.response) = "nameserver"

\* C16: resolve bounds neither the number of queries nor the nesting depth.  A
\* resolve that has not ended is running; after a referral it neither returns
\* nor fails but is about to query again, in the same call or in a nested one;
\* and it stops sending queries only by returning or failing (in the model also
\* at MaxQueries and MaxNest), after however many queries.
C16_NoBound ==
    /\ [](calls # <<>> => outcome.state = "running")
    /\ [][C16_Step]_vars
    /\ <>C16_EndedOrCapped

\* C16 witness: after referrals only, MaxQueries queries were sent, the calls
\* are nested MaxNest deep and the innermost is about to query again.
C16_Witness ==
    /\ nSent = MaxQueries
    /\ Len(calls) = MaxNest
    /\ outcome.state = "running"
    /\ Active.at = "query"
    /\ \A i \in 1..Len(calls) : IsReferral(calls[i].response)

\* A query is outstanding: sent (or its send attempted), its reply awaited.
Outstanding(c) == c.at = "receive"

C18_Step ==
    /\ nSent' # nSent
         => /\ nSent' = nSent + 1
            /\ wire = NoWire
            /\ Active.at = "query"
            /\ Len(calls') = Len(calls)
            /\ Outstanding(calls'[Len(calls')])
            /\ wire'.to = Active.nameserver
    /\ (calls # <<>> /\ Outstanding(Active))
         => /\ nSent' = nSent
            /\ wire' = NoWire
            /\ calls' = <<>> \/ (Len(calls') = Len(calls) /\ calls'[Len(calls')].at = "got")

\* C18: within one top-level resolve the queries are strictly sequential.  Every
\* call but the innermost waits for its nested resolve, so at most one query is
\* outstanding and it is the innermost call's; a query is one send, made when no
\* query is outstanding and the previous reply of the call was decoded and
\* acted on, followed by one receive (or a failure that ends resolve); a caller
\* sends its next query only after its nested resolve is gone.
C18_Sequential ==
    /\ [](/\ \A i \in 1..(Len(calls) - 1) : calls[i].at = "await"
          /\ wire # NoWire => (calls # <<>> /\ Outstanding(Active)))
    /\ [][C18_Step]_vars

\* C18 witness: the third query of a resolve is outstanding, the caller's own,
\* after the query of its nested resolve was sent and answered.
C18_Witness ==
    /\ Len(calls) = 1
    /\ nSent = 3
    /\ Outstanding(Active)
    /\ wire.sent
    /\ nextStep(Active.response) = "nameserver"

\* One resolve invocation on its own, as a function of the replies it receives:
\* r is the invocation (its calls, outcome, asked and heard).
AloneTop(r) == r.calls[Len(r.calls)]

\* It sends its next query, if it is about to.
AloneSend(r) ==
    IF r.calls # <<>> /\ AloneTop(r).at = "query"
    THEN [r EXCEPT !.calls[Len(r.calls)].at = "receive",
                   !.asked = Append(@, AloneTop(r).nameserver)]
    ELSE r

\* It receives and decodes a reply.
AloneReceive(r, reply) ==
    [r EXCEPT !.calls[Len(r.calls)].at = "got",
              !.calls[Len(r.calls)].response = reply,
              !.heard = Append(@, reply)]

\* It acts on the reply: return the first type-A answer (to the caller, when
\* nested), else take the first type-A additional as the nameserver, else
\* resolve the first authority NS name from the root, else fail.
AloneDecide(r) ==
    LET n == Len(r.calls)
        reply == AloneTop(r).response
    IN  IF HasType(reply.answers, TYPE_A)
        THEN LET ip == FirstOfType(reply.answers, TYPE_A).data IN
             IF n = 1
             THEN [r EXCEPT !.calls = <<>>,
                            !.outcome = [state |-> "returned", ip |-> ip,
                                         error |-> "", depth |-> 1]]
             ELSE [r EXCEPT !.calls = [SubSeq(r.calls, 1, n - 1) EXCEPT
                                         ![n - 1].nameserver = ip,
                                         ![n - 1].at = "query"]]
        ELSE IF HasType(reply.additionals, TYPE_A)
        THEN [r EXCEPT !.calls[n].nameserver =
                            FirstOfType(reply.additionals, TYPE_A).data,
                       !.calls[n].at = "query"]
        ELSE IF HasType(reply.authorities, TYPE_NS)
        THEN [r EXCEPT !.calls =
                 Append([r.calls EXCEPT ![n].at = "await"],
                        [domainName |-> FirstOfType(reply.authorities, TYPE_NS).data,
                         recortType |-> TYPE_A, nameserver |-> rootServer,
                         at |-> "query", response |-> NoResponse])]
        ELSE [r EXCEPT !.calls = <<>>,
                       !.outcome = [state |-> "threw", ip |-> <<>>,
                                    error |-> "Something went wrong", depth |-> n]]

\* The invocation after it has received the replies rs, one per query, and has
\* acted on the last of them.
RECURSIVE AloneAfter(_, _)
AloneAfter(start, rs) ==
    IF rs = <<>> THEN start
    ELSE AloneDecide(AloneReceive(AloneSend(AloneAfter(start, SubSeq(rs, 1, Len(rs) - 1))),
                                  rs[Len(rs)]))

\* C15: resolve invocations running in parallel, their round trips interleaved
\* in any order, do not affect each other: at every moment each invocation (the
\* nameservers it queried, its calls, its result or error) is where it is when
\* it runs alone and receives the same replies: it has acted on the last reply,
\* or has also sent its next query, or has received the last reply and not yet
\* acted on it.
C15_NoInterference ==
    \A i \in DOMAIN runs :
        LET h == runs[i].heard
            acted == AloneAfter(RunStart(i), h)
        IN  \/ runs[i] = acted
            \/ runs[i] = AloneSend(acted)
            \/ /\ h # <<>>
               /\ runs[i] = AloneReceive(
                                AloneSend(AloneAfter(RunStart(i),
                                                     SubSeq(h, 1, Len(h) - 1))),
                                h[Len(h)])

\* C15 witness: both invocations have ended after three queries each, the first
\* with an address from a nameserver found by a nested resolve, the second with
\* an error after following glue twice.
C15_Witness ==
    /\ DOMAIN runs = {1, 2}
    /\ runs[1].outcome.state = "returned"
    /\ runs[1].asked = <<rootServer, rootServer, A1.data>>
    /\ runs[2].outcome.state = "threw"
    /\ runs[2].asked = <<rootServer, A2.data, A2.data>>

====
